---- MODULE Spec2Model ----
(***************************************************************************)
(* Location tracker: POST /api/locations (ingestion of GPS fixes, geofence *)
(* check, broadcast) and the WebSocket subscription service.               *)
(*                                                                         *)
(* Every `await` of a handler is a scheduling point, so each handler is    *)
(* split into one action per await; the code between two awaits runs to    *)
(* completion on the event loop and is one atomic action.                  *)
(***************************************************************************)
EXTENDS Integers, Sequences, FiniteSets, TLC

\* ------------------------------------------------------------------ bounds
\* inputs from outside over one run: POST /api/locations requests, inbound
\* WebSocket frames and connection closes
MaxInputs == 3

ReqIds == 1..MaxInputs      \* requests, numbered in submission order

\* ---------------------------------------------------------------- universe
None == "none"
Conns == {"A", "B"}                 \* WebSocket connections accepted by the server
DeviceIds == {"d1", "d2"}           \* registered devices
UnknownId == "dx"                   \* a deviceId no device has
AllIds == DeviceIds \cup {UnknownId}

\* ws readyState values: 1 OPEN, 3 CLOSED
OPEN == 1
ReadyStates == {1, 3}

\* R * PI / 180 with R = 6371e3: metres of great-circle arc per degree
MetersPerDegree == 111195

\* device.geofences, in declaration order.  g1's radius is exactly one
\* degree of arc, so longitude 1 lies on its boundary.
Geofences(d) ==
    IF d = "d1"
    THEN << [name |-> "g1", radius |-> 111195, center |-> <<0, 0>>],
            [name |-> "g2", radius |-> 150000, center |-> <<1, 0>>] >>
    ELSE << >>

\* ----------------------------------------------------- request body values
\* One element of the JSON array `coordinates`: a JSON number or a numeric
\* string.
Num(n) == [k |-> "num", v |-> n]
Str(n) == [k |-> "str", v |-> n]

\* req.body.coordinates: arr says whether the value is an array at all.
Arr(s) == [arr |-> TRUE, el |-> s]
NoCoords == [arr |-> FALSE, el |-> << >>]

Bodies ==
    { NoCoords,
      Arr(<< Num(0), Num(0) >>),
      Arr(<< Num(2), Num(0) >>),
      Arr(<< Num(200), Num(0) >>),
      Arr(<< Str(1), Str(0) >>) }

\* the requests the model submits: << x-device-id, coordinates >>
FixInputs ==
    { <<"d1", b>> : b \in Bodies } \cup { <<"d2", Arr(<< Num(0), Num(0) >>)>> }

\* ---------------------------------------------------------- pure functions
Abs(x) == IF x < 0 THEN -x ELSE x

\* JavaScript's numeric coercion in `*` and `-`: a numeric string counts as
\* its number.
ToNumber(e) == e.v

\* mongoose's cast of the elements of a [Number] path: a number stays, a
\* numeric string becomes its number.
CastCoords(body) == << body.el[1].v, body.el[2].v >>

\* locationSchema.index({ location: '2dsphere' }): the database refuses to
\* insert a Point whose longitude is outside [-180, 180] or whose latitude
\* is outside [-90, 90].
GeoIndexAccepts(point) ==
    /\ -180 <= point[1] /\ point[1] <= 180
    /\ -90 <= point[2] /\ point[2] <= 90

\* the raw request array as calculateDistance sees it
RawPoint(body) == << ToNumber(body.el[1]), ToNumber(body.el[2]) >>

\* calculateDistance(point1, point2), haversine, in metres.  Every position
\* of this model lies on the equator (latitude 0), where
\*   a = sin^2(dLon/2),  c = 2*atan2(sqrt(a), sqrt(1-a))
\* is the longitude difference folded into [0, 180] degrees.
CalculateDistance(point1, point2) ==
    LET dLon == Abs(point2[1] - point1[1]) % 360
        arc == IF dLon > 180 THEN 360 - dLon ELSE dLon
    IN  MetersPerDegree * arc

\* const isInside = distance <= geofence.radius
IsInsideStrict(point, geofence) ==
    CalculateDistance(point, geofence.center) < geofence.radius

IsInside(point, geofence) ==
    CalculateDistance(point, geofence.center) <= geofence.radius

\* const wasInside = req.device.lastLocation ? calculateDistance(
\*     req.device.lastLocation.coordinates, center) <= radius : false
\* lastLocation is the in-memory document's field; << >> stands for absent.
WasInsideNever(lastLocation, geofence) == FALSE

WasInside(lastLocation, geofence) ==
    IF lastLocation # << >>
    THEN CalculateDistance(lastLocation, geofence.center) <= geofence.radius
    ELSE FALSE

\* ------------------------------------------------------------------ frames
Frame(type, d, fix, ev, gf) == [type |-> type, dev |-> d, fix |-> fix, ev |-> ev, gf |-> gf]
LocationUpdate(d, fix) == Frame("location_update", d, fix, "none", 0)
GeofenceEvent(d, fix, ev, gf) == Frame("geofence_event", d, fix, ev, gf)
Subscribed(d) == Frame("subscribed", d, 0, "none", 0)
ErrorFrame(msg) == Frame("error", None, 0, msg, 0)

\* The geofence loop: the broadcastGeofenceEvent calls of one fix, in call
\* order, as << eventType, index of the geofence >>.
RECURSIVE GeofenceCalls(_, _, _, _)
GeofenceCalls(point, lastLocation, gfs, i) ==
    IF i > Len(gfs) THEN << >>
    ELSE LET wasInside == WasInside(lastLocation, gfs[i])
             isInside == IsInside(point, gfs[i])
             here == IF ~wasInside /\ isInside THEN << <<"enter", i>> >>
                     ELSE IF wasInside /\ ~isInside THEN << <<"exit", i>> >>
                     ELSE << >>
         IN  here \o GeofenceCalls(point, lastLocation, gfs, i + 1)

\* ------------------------------------------------------------------- state
VARIABLES
    req,          \* per request: the handler's position and locals
    devLast,      \* Device collection: stored lastLocation.coordinates
    locations,    \* Location collection: the saved records
    connections,  \* WebSocketService.connections: deviceId -> connection
    readyState,   \* per connection: ws.readyState
    pending,      \* subscribe handlers waiting for Device.findOne
    msgCount,     \* inbound frames handled so far
    sent,         \* per connection: frames written to it, in order
    reported,     \* history: the device has had a fix accepted
    closeCount,   \* close events handled so far
    subOrder      \* history: per device, the connections whose subscribe succeeded

vars == << req, devLast, locations, connections, readyState, pending,
           msgCount, sent, reported, closeCount, subOrder >>

\* One request: dev, body, doc (req.device.lastLocation) and pc are the
\* handler's locals and position, status its response.  The other fields
\* are history, written when the request ends: why it failed (err), the
\* open subscriber found for the device (sub), and for an accepted fix the
\* stored position it replaced (prev), whether it was the device's first
\* accepted fix, the broadcastGeofenceEvent calls it made (events) and
\* whether the transport failed to write its frames (sendFailed).
IdleReq ==
    [ dev |-> "d1", body |-> NoCoords, pc |-> "idle", doc |-> << >>,
      status |-> "none", err |-> "none", sub |-> None,
      prev |-> <<0, 0>>, first |-> FALSE, events |-> << >>,
      sendFailed |-> FALSE ]

Init ==
    /\ req = [r \in ReqIds |-> IdleReq]
    /\ devLast = [d \in DeviceIds |-> <<0, 0>>]
    /\ locations = {}
    /\ connections = [d \in AllIds |-> None]
    /\ readyState = [c \in Conns |-> OPEN]
    /\ pending = {}
    /\ msgCount = 0
    /\ sent = [c \in Conns |-> << >>]
    /\ reported = [d \in DeviceIds |-> FALSE]
    /\ closeCount = 0
    /\ subOrder = [d \in DeviceIds |-> << >>]

\* --------------------------------------------- POST /api/locations handler
NumSubmitted == Cardinality({q \in ReqIds : req[q].pc # "idle"})

\* requests submitted, inbound frames received and closes handled so far
NumInputs == NumSubmitted + msgCount + closeCount

\* A request arrives; requests are numbered in arrival order.
Submit(r) ==
    /\ req[r].pc = "idle"
    /\ \A q \in ReqIds : q < r => req[q].pc # "idle"
    /\ NumInputs < MaxInputs
    /\ \E in \in FixInputs :
         req' = [req EXCEPT ![r] = [@ EXCEPT !.dev = in[1], !.body = in[2], !.pc = "auth"]]
    /\ UNCHANGED << devLast, locations, connections, readyState, pending,
                    msgCount, sent, reported, closeCount, subOrder >>

\* The continuation of an `await` runs once its own promise has settled.
\* The handler and the middleware take no lock and keep no queue, so no
\* request waits for another one.
AwaitReadyAfterOthers(r) == \A q \in ReqIds : q < r => req[q].pc = "done"

AwaitReady(r) == TRUE

\* catch (error) { next(error) }: the request ends with an error response
\* and its locals are gone.
Fail(r, why, c) ==
    req' = [req EXCEPT ![r] = [IdleReq EXCEPT !.pc = "done", !.status = "error",
                                              !.err = why, !.sub = c]]

\* authenticateDevice rejects the request (missing or wrong key, inactive
\* device, failed lookup): next(error).
AuthFail(r) ==
    /\ req[r].pc = "auth"
    /\ AwaitReady(r)
    /\ Fail(r, "auth", None)
    /\ UNCHANGED << devLast, locations, connections, readyState, pending,
                    msgCount, sent, reported, closeCount, subOrder >>

\* if (!coordinates || !Array.isArray(coordinates) || coordinates.length !== 2)
CoordinatesRejected(body) == ~body.arr \/ Len(body.el) # 2

\* authenticateDevice loads the device document (req.device) and the route
\* handler runs up to its first await: the check of `coordinates` and the
\* construction of the Location record.
AuthDone(r) ==
    /\ req[r].pc = "auth"
    /\ AwaitReady(r)
    /\ IF CoordinatesRejected(req[r].body)
       THEN Fail(r, "validation", None)
       ELSE /\ req' = [req EXCEPT ![r] = [@ EXCEPT !.doc = devLast[req[r].dev],
                                                   !.pc = "saveLoc"]]
    /\ UNCHANGED << devLast, locations, connections, readyState, pending,
                    msgCount, sent, reported, closeCount, subOrder >>

\* await location.save() resolves; then req.device.lastLocation is assigned
\* the new coordinates (cast by the schema) and req.device.save() is started.
LocationSaved(r) ==
    /\ req[r].pc = "saveLoc"
    /\ AwaitReady(r)
    /\ GeoIndexAccepts(CastCoords(req[r].body))
    /\ locations' = locations \cup
         { [fix |-> r, dev |-> req[r].dev, coords |-> CastCoords(req[r].body)] }
    /\ req' = [req EXCEPT ![r] = [@ EXCEPT !.doc = CastCoords(req[r].body),
                                           !.pc = "saveDev"]]
    /\ UNCHANGED << devLast, connections, readyState, pending,
                    msgCount, sent, reported, closeCount, subOrder >>

\* await location.save() rejects (the geo index refuses the point, or the
\* database fails): catch -> next(error).
LocationSaveFail(r) ==
    /\ req[r].pc = "saveLoc"
    /\ AwaitReady(r)
    /\ Fail(r, "locSave", None)
    /\ UNCHANGED << devLast, locations, connections, readyState, pending,
                    msgCount, sent, reported, closeCount, subOrder >>

\* connections.get(deviceId), kept when `connection && readyState === 1`
SubscriberAnyState(conns, rs, d) == conns[d]

Subscriber(conns, rs, d) ==
    IF conns[d] # None
    THEN (IF rs[conns[d]] = OPEN THEN conns[d] ELSE None)
    ELSE None

\* connection.send(text) without a callback.  ws throws from send() only
\* while the socket is CONNECTING (readyState 0); a write error on an open
\* socket is handed to the callback, and none is passed.
SendThrowsOnError(state, transportOk) == state = 0 \/ ~transportOk

SendThrows(state, transportOk) == state = 0

\* The frames one fix puts on the wire: broadcastLocation, then the
\* geofence loop in declaration order.
FixFrames(r, d, calls) ==
    << LocationUpdate(d, r) >> \o
    [i \in 1..Len(calls) |-> GeofenceEvent(d, r, calls[i][1], calls[i][2])]

\* await req.device.save() resolves: the stored lastLocation is overwritten;
\* then, without a further await, broadcastLocation, the geofence loop and
\* res.status(201).
DeviceSaved(r) ==
    /\ req[r].pc = "saveDev"
    /\ AwaitReady(r)
    /\ \E transportOk \in BOOLEAN :
         LET d == req[r].dev
             c == Subscriber(connections, readyState, d)
             threw == c # None /\ SendThrows(readyState[c], transportOk)
             calls == GeofenceCalls(RawPoint(req[r].body), req[r].doc, Geofences(d), 1)
         IN  /\ devLast' = [devLast EXCEPT ![d] = req[r].doc]
             /\ reported' = [reported EXCEPT ![d] = TRUE]
             /\ sent' = IF c # None /\ transportOk /\ ~threw
                        THEN [sent EXCEPT ![c] = @ \o FixFrames(r, d, calls)]
                        ELSE sent
             /\ IF threw
                THEN Fail(r, "send", c)
                ELSE req' = [req EXCEPT ![r] =
                        [@ EXCEPT !.pc = "done", !.doc = << >>, !.status = "created",
                                  !.sub = c, !.prev = devLast[d],
                                  !.first = ~reported[d], !.events = calls,
                                  !.sendFailed = (c # None /\ ~transportOk)]]
    /\ UNCHANGED << locations, connections, readyState, pending, msgCount,
                    closeCount, subOrder >>

\* await req.device.save() rejects: catch -> next(error).
DeviceSaveFailAfterBroadcast(r) ==
    /\ req[r].pc = "saveDev"
    /\ AwaitReady(r)
    /\ LET d == req[r].dev
           c == Subscriber(connections, readyState, d)
       IN  sent' = IF c # None
                   THEN [sent EXCEPT ![c] = Append(@, LocationUpdate(d, r))]
                   ELSE sent
    /\ Fail(r, "devSave", Subscriber(connections, readyState, req[r].dev))
    /\ UNCHANGED << devLast, locations, connections, readyState, pending,
                    msgCount, reported, closeCount, subOrder >>

DeviceSaveFail(r) ==
    /\ req[r].pc = "saveDev"
    /\ AwaitReady(r)
    /\ Fail(r, "devSave", Subscriber(connections, readyState, req[r].dev))
    /\ UNCHANGED << devLast, locations, connections, readyState, pending,
                    msgCount, sent, reported, closeCount, subOrder >>

\* ------------------------------------------------------ WebSocket service
\* ws.send from the message handler: written only to an open socket.
Reply(c, frame) ==
    IF readyState[c] = OPEN THEN [sent EXCEPT ![c] = Append(@, frame)] ELSE sent

\* this.connections.set(data.deviceId, ws)
SetConnectionIfAbsent(conns, d, c) ==
    IF conns[d] = None THEN [conns EXCEPT ![d] = c] ELSE conns

SetConnectionNever(conns, d, c) == conns

SetConnection(conns, d, c) == [conns EXCEPT ![d] = c]

\* The inbound frames the model sends: text that is not JSON, a subscribe
\* with a deviceId, a subscribe without one, and a frame of another type.
MsgKinds == {"garbage", "subscribe", "subscribeNoId", "other"}

\* ws.on('message') up to its first await.
Message(c) ==
    /\ readyState[c] = OPEN
    /\ NumInputs < MaxInputs
    /\ msgCount' = msgCount + 1
    /\ \E kind \in MsgKinds, d \in AllIds :
         CASE kind = "garbage" ->
                \* JSON.parse throws: catch -> error frame
                /\ sent' = Reply(c, ErrorFrame("Invalid message format"))
                /\ UNCHANGED pending
           [] kind = "subscribe" ->
                \* await Device.findOne({ deviceId })
                /\ pending' = pending \cup { [id |-> msgCount + 1, conn |-> c, dev |-> d] }
                /\ UNCHANGED sent
           [] OTHER ->
                \* data.type !== 'subscribe' or no deviceId: nothing is done
                /\ UNCHANGED << pending, sent >>
    /\ UNCHANGED << req, devLast, locations, connections, readyState,
                    reported, closeCount, subOrder >>

\* Device.findOne({ deviceId }) resolves to a document: a device with that
\* deviceId exists.
FindOneAny(d) == TRUE

FindOne(d) == d \in DeviceIds

\* Device.findOne resolves and the handler runs to its end.
LookupDone(p) ==
    /\ p \in pending
    /\ pending' = pending \ {p}
    /\ IF ~FindOne(p.dev)
       THEN /\ sent' = Reply(p.conn, ErrorFrame("Device not found"))
            /\ UNCHANGED << connections, subOrder >>
       ELSE /\ connections' = SetConnection(connections, p.dev, p.conn)
            /\ sent' = Reply(p.conn, Subscribed(p.dev))
            /\ subOrder' = [subOrder EXCEPT ![p.dev] = Append(@, p.conn)]
    /\ UNCHANGED << req, devLast, locations, readyState, msgCount, reported,
                    closeCount >>

\* Device.findOne rejects: catch -> error frame.
LookupFail(p) ==
    /\ p \in pending
    /\ pending' = pending \ {p}
    /\ sent' = Reply(p.conn, ErrorFrame("Invalid message format"))
    /\ UNCHANGED << req, devLast, locations, connections, readyState,
                    msgCount, reported, closeCount, subOrder >>

\* ws.on('close'): the socket is CLOSED and every entry whose value is this
\* connection is deleted.
CloseEventByDevice(c) ==
    /\ readyState[c] = OPEN
    /\ NumInputs < MaxInputs
    /\ closeCount' = closeCount + 1
    /\ readyState' = [readyState EXCEPT ![c] = 3]
    /\ connections' = [d \in AllIds |->
                         IF d \in DeviceIds /\ \E k \in 1..Len(subOrder[d]) : subOrder[d][k] = c
                         THEN None ELSE connections[d]]
    /\ UNCHANGED << req, devLast, locations, pending, msgCount, sent,
                    reported, subOrder >>

CloseEvent(c) ==
    /\ readyState[c] = OPEN
    /\ NumInputs < MaxInputs
    /\ closeCount' = closeCount + 1
    /\ readyState' = [readyState EXCEPT ![c] = 3]
    /\ connections' = [d \in AllIds |->
                         IF connections[d] = c THEN None ELSE connections[d]]
    /\ UNCHANGED << req, devLast, locations, pending, msgCount, sent,
                    reported, subOrder >>

\* ----------------------------------------------------------- specification
Next ==
    \/ \E r \in ReqIds : Submit(r)
    \/ \E r \in ReqIds : AuthFail(r)
    \/ \E r \in ReqIds : AuthDone(r)
    \/ \E r \in ReqIds : LocationSaved(r)
    \/ \E r \in ReqIds : LocationSaveFail(r)
    \/ \E r \in ReqIds : DeviceSaved(r)
    \/ \E r \in ReqIds : DeviceSaveFail(r)
    \/ \E c \in Conns : Message(c)
    \/ \E p \in pending : LookupDone(p)
    \/ \E p \in pending : LookupFail(p)
    \/ \E c \in Conns : CloseEvent(c)

Spec == Init /\ [][Next]_vars

\* One step of request r's handler: the promise it awaits settles (resolves
\* or rejects) and the continuation runs.
FixStep(r) ==
    \/ AuthFail(r) \/ AuthDone(r)
    \/ LocationSaved(r) \/ LocationSaveFail(r)
    \/ DeviceSaved(r) \/ DeviceSaveFail(r)

\* Every promise awaited by a request of device d eventually settles and the
\* event loop runs its continuation.
FairFor(d) == \A r \in ReqIds : WF_vars(FixStep(r) /\ req[r].dev = d)

\* Only d1's requests are scheduled fairly: the database may take forever
\* over d2's, and connections and clients may do anything or nothing.
LiveSpec == Init /\ [][Next]_vars /\ FairFor("d1")

TypeOK ==
    /\ \A r \in ReqIds : req[r].pc \in {"idle", "auth", "saveLoc", "saveDev", "done"}
    /\ \A d \in AllIds : connections[d] \in Conns \cup {None}
    /\ \A c \in Conns : readyState[c] \in ReadyStates
    /\ msgCount \in 0..MaxInputs

\* ================================================================== claims
\* request r was answered 201
Accepted(r) == req[r].pc = "done" /\ req[r].status = "created"

\* the position an accepted fix stores
NewPos(r) == CastCoords(req[r].body)

\* the specified containment test: distance <= radius
Within(point, geofence) == CalculateDistance(point, geofence.center) <= geofence.radius

\* how many calls of one event type one fix made for geofence i
CountCalls(calls, ev, i) ==
    Cardinality({k \in 1..Len(calls) : calls[k] = <<ev, i>>})

\* the frames of fix r on connection c, in the order they were written
FramesOfFix(c, r) == SelectSeq(sent[c], LAMBDA f : f.fix = r)

\* C1: the first accepted fix of a device that lies inside one of its
\* geofences produces exactly one 'enter' event and no 'exit' event for
\* that geofence.
C1_FirstFixEnters ==
    \A r \in ReqIds :
        (Accepted(r) /\ req[r].first) =>
            \A i \in 1..Len(Geofences(req[r].dev)) :
                Within(NewPos(r), Geofences(req[r].dev)[i]) =>
                    /\ CountCalls(req[r].events, "enter", i) = 1
                    /\ CountCalls(req[r].events, "exit", i) = 0

\* C2: an accepted fix outside a geofence that follows an accepted fix
\* inside it produces exactly one 'exit' event and no 'enter' event for
\* that geofence.
C2_InsideToOutsideExits ==
    \A r \in ReqIds :
        (Accepted(r) /\ ~req[r].first) =>
            \A i \in 1..Len(Geofences(req[r].dev)) :
                LET g == Geofences(req[r].dev)[i]
                IN  (Within(req[r].prev, g) /\ ~Within(NewPos(r), g)) =>
                        /\ CountCalls(req[r].events, "exit", i) = 1
                        /\ CountCalls(req[r].events, "enter", i) = 0

\* C3: an accepted fix on the same side of a geofence as the accepted fix
\* before it produces no event for that geofence.
C3_NoChangeNoEvent ==
    \A r \in ReqIds :
        (Accepted(r) /\ ~req[r].first) =>
            \A i \in 1..Len(Geofences(req[r].dev)) :
                LET g == Geofences(req[r].dev)[i]
                IN  (Within(req[r].prev, g) <=> Within(NewPos(r), g)) =>
                        /\ CountCalls(req[r].events, "enter", i) = 0
                        /\ CountCalls(req[r].events, "exit", i) = 0

\* a second fix moved the device inside g1 and its frames reached an open
\* subscriber
C3_Witness ==
    \E r \in ReqIds :
        /\ Accepted(r) /\ ~req[r].first /\ req[r].dev = "d1"
        /\ req[r].prev # NewPos(r)
        /\ Within(req[r].prev, Geofences("d1")[1])
        /\ Within(NewPos(r), Geofences("d1")[1])
        /\ req[r].sub # None /\ ~req[r].sendFailed

\* the broadcast frames (location_update, geofence_event) of device d in a
\* sequence of frames
Broadcasts(frames, d) ==
    SelectSeq(frames, LAMBDA f : f.dev = d /\ f.type \in {"location_update", "geofence_event"})

\* C4: a broadcast for a device is written only to the connection whose
\* subscribe for that device succeeded last, never to one that subscribed
\* before it.
C4_OnlyLatestSubscriber ==
    [][ \A c \in Conns, d \in DeviceIds :
            Len(Broadcasts(sent'[c], d)) > Len(Broadcasts(sent[c], d)) =>
                /\ subOrder[d] # << >>
                /\ subOrder[d][Len(subOrder[d])] = c ]_vars

\* A and then B subscribed to d1, and a later fix of d1 was written to B
C4_Witness ==
    /\ subOrder["d1"] = << "A", "B" >>
    /\ \E r \in ReqIds :
         /\ Accepted(r) /\ req[r].dev = "d1" /\ req[r].sub = "B"
         /\ FramesOfFix("B", r) # << >>
         /\ FramesOfFix("A", r) = << >>

\* C5: no deviceId is mapped to a connection that has closed.
C5_ClosedNeverMapped ==
    \A d \in AllIds :
        connections[d] # None => readyState[connections[d]] = OPEN

\* every submitted request has been answered
Quiescent == \A r \in ReqIds : req[r].pc \in {"idle", "done"}

\* the fix numbers of the location_update frames of device d on connection
\* c, in the order they were written
UpdateOrder(c, d) ==
    LET ups == SelectSeq(sent[c], LAMBDA f : f.dev = d /\ f.type = "location_update")
    IN  [k \in 1..Len(ups) |-> ups[k].fix]

\* C6: once all fixes of a device are answered, the stored lastLocation is
\* that of the accepted fix submitted last, and every connection received
\* the device's location_update frames in submission order.
C6_SubmissionOrder ==
    \A d \in DeviceIds :
        /\ Quiescent =>
             \A r \in ReqIds :
                 ( /\ Accepted(r) /\ req[r].dev = d
                   /\ \A q \in ReqIds : (Accepted(q) /\ req[q].dev = d) => q <= r )
                 => devLast[d] = NewPos(r)
        /\ \A c \in Conns :
             LET order == UpdateOrder(c, d)
             IN  \A j, k \in 1..Len(order) : j < k => order[j] < order[k]

\* The geofence transitions of one fix as specified, in declaration order:
\* enter when the previous position (none for a first fix) was not inside
\* and the new one is, exit when it was inside and the new one is not.
RECURSIVE Transitions(_, _, _, _, _)
Transitions(first, prev, new, gfs, i) ==
    IF i > Len(gfs) THEN << >>
    ELSE LET was == ~first /\ Within(prev, gfs[i])
             is == Within(new, gfs[i])
             here == IF ~was /\ is THEN << <<"enter", i>> >>
                     ELSE IF was /\ ~is THEN << <<"exit", i>> >>
                     ELSE << >>
         IN  here \o Transitions(first, prev, new, gfs, i + 1)

C8_SendErrorNotPropagated ==
    \A r \in ReqIds :
        /\ req[r].err # "send"
        /\ req[r].sendFailed =>
             /\ req[r].status = "created"
             /\ \E l \in locations : l.fix = r /\ l.coords = NewPos(r)

\* a fix found an open subscriber and the transport failed to write
C8_Witness ==
    \E r \in ReqIds :
        /\ Accepted(r) /\ req[r].sendFailed /\ req[r].sub # None
        /\ \A c \in Conns : FramesOfFix(c, r) = << >>

\* C9: a fix whose device write failed is answered with an error and none
\* of its frames is written to any connection.
C9_PersistenceFailureAborts ==
    \A r \in ReqIds :
        req[r].err = "devSave" =>
            /\ req[r].status = "error"
            /\ \A c \in Conns : FramesOfFix(c, r) = << >>

\* the device write of a fix failed while an open subscriber was mapped
C9_Witness ==
    \E r \in ReqIds :
        req[r].pc = "done" /\ req[r].err = "devSave" /\ req[r].sub # None

\* coordinates are exactly two numbers, longitude in [-180, 180] and
\* latitude in [-90, 90]
ValidFix(body) ==
    /\ body.arr
    /\ Len(body.el) = 2
    /\ \A k \in 1..Len(body.el) : body.el[k].k = "num"
    /\ -180 <= body.el[1].v /\ body.el[1].v <= 180
    /\ -90 <= body.el[2].v /\ body.el[2].v <= 90

\* C10: a fix with invalid coordinates is never answered 201, never
\* persisted and never broadcast.
C10_InvalidCoordinatesRejected ==
    \A r \in ReqIds :
        ( /\ req[r].pc \in {"auth", "saveLoc", "saveDev"} \/ Accepted(r)
          /\ ~ValidFix(req[r].body) )
        => /\ ~Accepted(r)
           /\ \A l \in locations : l.fix # r
           /\ \A c \in Conns : FramesOfFix(c, r) = << >>

\* the frames a step appends to connection c
NewFrames(c) == SubSeq(sent'[c], Len(sent[c]) + 1, Len(sent'[c]))

\* C11: when the lookup of a subscribe naming a deviceId that no device has
\* ends, the subscription map is unchanged and the connection, if still
\* open, is sent exactly one frame, of type 'error'.
C11_UnknownDeviceNoSubscription ==
    [][ \A p \in pending :
            (p \notin pending' /\ p.dev \notin DeviceIds) =>
                /\ connections' = connections
                /\ subOrder' = subOrder
                /\ readyState[p.conn] = OPEN =>
                     /\ Len(NewFrames(p.conn)) = 1
                     /\ NewFrames(p.conn)[1].type = "error" ]_vars

\* connection A holds d1's mapping and was then told that the device of a
\* later subscribe was not found.
C11_Witness ==
    /\ connections["d1"] = "A"
    /\ Len(sent["A"]) = 2
    /\ sent["A"][1] = Subscribed("d1")
    /\ sent["A"][2] = ErrorFrame("Device not found")

\* the step handles an inbound frame that starts no device lookup: text
\* that is not JSON, a subscribe without deviceId, or a frame of another type
MalformedFrameStep == msgCount' = msgCount + 1 /\ pending' = pending

\* C12: an inbound frame that is unparseable or violates the message schema
\* is answered with one 'error' frame, and neither the connection's state
\* nor the subscription map changes.
C12_MalformedAnswered ==
    [][ MalformedFrameStep =>
            /\ \E c \in Conns :
                 /\ Len(NewFrames(c)) = 1
                 /\ NewFrames(c)[1].type = "error"
            /\ readyState' = readyState
            /\ connections' = connections ]_vars

\* the step in which request r runs its broadcasts: req.device.save() has
\* resolved and the handler runs to its end
BroadcastStep(r) ==
    req[r].pc = "saveDev" /\ req'[r].pc = "done" /\ req'[r].err # "devSave"

\* C13: the broadcasts of a fix write one frame per broadcast call to the
\* connection mapped to the device when that connection is open, and
\* nothing to any other connection; without an open mapped connection
\* they write nothing.  Either way the request is answered 201 and the
\* subscription map is unchanged.
C13_BroadcastOneFrameOrDrop ==
    [][ \A r \in ReqIds :
            BroadcastStep(r) =>
                LET d == req[r].dev
                    c == connections[d]
                    open == c # None /\ readyState[c] = OPEN
                IN  /\ connections' = connections
                    /\ req'[r].status = "created"
                    /\ \A c2 \in Conns :
                         IF open /\ c2 = c /\ ~req'[r].sendFailed
                         THEN /\ Len(NewFrames(c2)) = 1 + Len(req'[r].events)
                              /\ NewFrames(c2)[1] = LocationUpdate(d, r)
                              /\ \A k \in 2..Len(NewFrames(c2)) :
                                   NewFrames(c2)[k].type = "geofence_event"
                         ELSE NewFrames(c2) = << >> ]_vars

\* one fix was written as a single frame to its device's open subscriber,
\* and another fix, of a device nobody subscribed to, was dropped
C13_Witness ==
    \E r, q \in ReqIds :
        /\ Accepted(r) /\ req[r].sub # None /\ ~req[r].sendFailed
        /\ FramesOfFix(req[r].sub, r) = << LocationUpdate(req[r].dev, r) >>
        /\ Accepted(q) /\ req[q].sub = None /\ connections[req[q].dev] = None
        /\ \A c \in Conns : FramesOfFix(c, q) = << >>

\* the event types of the geofence_event frames of device d and geofence i
\* on connection c, in the order they were written
EventOrder(c, d, i) ==
    LET evs == SelectSeq(sent[c], LAMBDA f : f.type = "geofence_event" /\ f.dev = d /\ f.gf = i)
    IN  [k \in 1..Len(evs) |-> evs[k].ev]

\* C14: the events of one geofence alternate: no fix produces two events
\* for it, and a subscriber never receives two 'enter' or two 'exit'
\* events for it in a row.
C14_EventsAlternate ==
    /\ \A r \in ReqIds : \A i \in 1..Len(Geofences(req[r].dev)) :
         CountCalls(req[r].events, "enter", i) + CountCalls(req[r].events, "exit", i) <= 1
    /\ \A c \in Conns, d \in DeviceIds : \A i \in 1..Len(Geofences(d)) :
         LET order == EventOrder(c, d, i)
         IN  \A k \in 1..Len(order) - 1 : order[k] # order[k + 1]

\* two fixes of d1 on opposite sides of g1's boundary were both accepted
\* and written to the same open subscriber
C14_Witness ==
    \E r, q \in ReqIds :
        /\ r # q /\ Accepted(r) /\ Accepted(q)
        /\ req[r].dev = "d1" /\ req[q].dev = "d1"
        /\ Within(NewPos(r), Geofences("d1")[1])
        /\ ~Within(NewPos(q), Geofences("d1")[1])
        /\ req[r].sub # None /\ req[q].sub = req[r].sub
        /\ FramesOfFix(req[r].sub, r) # << >>
        /\ FramesOfFix(req[r].sub, q) # << >>

\* C15: a submitted fix of d1 is eventually answered, however long the
\* persistence of d2's fixes takes.
C15_DistinctDevicesDoNotBlock ==
    \A r \in ReqIds :
        (req[r].pc # "idle" /\ req[r].dev = "d1") ~> (req[r].pc = "done")

\* a fix of d1 was accepted while a fix of d2 submitted before it was still
\* waiting for the database
C15_Witness ==
    \E q, r \in ReqIds :
        /\ q < r
        /\ req[q].dev = "d2" /\ req[q].pc \in {"saveLoc", "saveDev"}
        /\ req[r].dev = "d1" /\ Accepted(r)

\* C16: a subscribe whose device lookup ends after its connection's close
\* was handled installs no mapping, and after every step each mapped
\* connection is one whose close has not been handled.
C16_NoMappingAfterClose ==
    [][ /\ \A p \in pending :
             (p \notin pending' /\ readyState[p.conn] # OPEN) =>
                 connections'[p.dev] # p.conn
        /\ \A d \in AllIds :
             connections'[d] # None => readyState'[connections'[d]] = OPEN ]_vars

\* C17: the close of connection c removes the entries that hold c and
\* leaves every other entry as it was.
C17_CloseOnlyOwnEntries ==
    [][ \A c \in Conns :
            (readyState[c] = OPEN /\ readyState'[c] # OPEN) =>
                \A d \in AllIds :
                    connections'[d] = IF connections[d] = c THEN None ELSE connections[d] ]_vars

\* A and then B subscribed to d1 and A has closed: d1 is still mapped to B
C17_Witness ==
    /\ subOrder["d1"] = << "A", "B" >>
    /\ readyState["A"] # OPEN
    /\ readyState["B"] = OPEN
    /\ connections["d1"] = "B"

\* C18: when a request ends with an error, the Location collection holds no
\* record of its fix and the step leaves the stored lastLocation as it was.
C18_ErrorLeavesStateUntouched ==
    [][ \A r \in ReqIds :
            (req[r].pc # "done" /\ req'[r].status = "error") =>
                /\ devLast' = devLast
                /\ \A l \in locations' : l.fix # r ]_vars

\* C19: a step that writes a 'subscribed' frame for deviceId d to
\* connection c writes nothing else to c, d is the deviceId of a device,
\* and after the step the subscription map maps d to c.
C19_SubscribedAfterMapSet ==
    [][ \A c \in Conns :
            \A k \in 1..Len(NewFrames(c)) :
                NewFrames(c)[k].type = "subscribed" =>
                    /\ Len(NewFrames(c)) = 1
                    /\ NewFrames(c)[k].dev \in DeviceIds
                    /\ connections'[NewFrames(c)[k].dev] = c ]_vars

\* B's subscribe to d2 was answered 'subscribed' and d2 is mapped to B,
\* while A's subscribe to an unknown deviceId was answered with an error only
C19_Witness ==
    /\ sent["B"] = << Subscribed("d2") >>
    /\ connections["d2"] = "B"
    /\ sent["A"] = << ErrorFrame("Device not found") >>
    /\ pending = {}
====
